---- MODULE Spec2Model ----
(***************************************************************************)
(* Model of bitbucket_commits_update.py: the incremental mirror of         *)
(* Bitbucket commit activity into a notification endpoint.                 *)
(*                                                                         *)
(* Python strings are tuples of character codes, so that the comparisons   *)
(* the program makes on timestamps and checkpoints are the lexicographic   *)
(* comparisons of Python and not comparisons of numbers.  Python's None is *)
(* the one-element tuple <<0>>, which orders below every string as None    *)
(* does in Python 2.                                                       *)
(***************************************************************************)
EXTENDS Integers, Sequences, FiniteSets, TLC

(* ------------------------------ bounds -------------------------------- *)

\* Longest upstream history of a repository.
MaxHist == 2
\* Commits the upstream returns per history request (the model's scale of
\* the limit= parameter of the request).
PageLimit == 2
\* History requests followed within one repository sync.
MaxFetch == 2
\* Consecutive runs of the program against the same upstream state.
MaxRuns == 2
\* Calls of post() followed in the batcher specification.
MaxPostCalls == 103

(* ------------------------- strings and values ------------------------- *)

PyNone == <<0>>

\* str(None), which is what redis-py writes for a None value.
NoneStr == <<78, 111, 110, 101>>

Min(a, b) == IF a < b THEN a ELSE b

\* A zero-padded, fixed-width timestamp string: the n-th instant.
Stamp(n) == <<48 + ((n \div 100) % 10), 48 + ((n \div 10) % 10), 48 + (n % 10)>>

\* The number a timestamp string denotes (dateutil.parser.parse).
StampNum(s) == (s[1] - 48) * 100 + (s[2] - 48) * 10 + (s[3] - 48)

StampNums == {0, 1, 2, 3}

Stamps == {Stamp(n) : n \in StampNums}

\* Timestamps commits and repositories carry: all later than the epoch.
LaterStamps == {Stamp(n) : n \in StampNums \ {0}}

IsStamp(s) == Len(s) = 3 /\ \A p \in 1..3 : s[p] \in 48..57

\* Python's a < b on strings (and on None, which is below every string).
LexLT(a, b) ==
    \E p \in 1..(Min(Len(a), Len(b)) + 1) :
        /\ \A q \in 1..(p - 1) : a[q] = b[q]
        /\ \/ p > Len(a) /\ p <= Len(b)
           \/ p <= Len(a) /\ p <= Len(b) /\ a[p] < b[p]

LexGT(a, b) == LexLT(b, a)

LexGE(a, b) == ~LexLT(a, b)

\* "1970-01-01T00:00:00"
Epoch == Stamp(0)

(* ------------------------------ authors ------------------------------- *)

\* config.get("email-domain")
EmailDomain == "example.com"

\* Raw author strings, as sequences of their parts.
AuthorA == <<"A ", "<", "a@", "example.com", ">">>
AuthorB == <<"B ", "<", "b@", "other.org", ">">>
AuthorC == <<"C">>

Authors == {AuthorA, AuthorB, AuthorC}

\* "<" in author
HasEmail(author) == \E p \in 1..Len(author) : author[p] = "<"

NotGt(part) == part # ">"

\* author.split("<")[1].replace(">", "")
EmailOf(author) ==
    LET first == CHOOSE p \in 1..Len(author) :
                     author[p] = "<" /\ \A q \in 1..(p - 1) : author[q] # "<"
        rest  == SubSeq(author, first + 1, Len(author))
        stop  == IF \E p \in 1..Len(rest) : rest[p] = "<"
                 THEN (CHOOSE p \in 1..Len(rest) :
                          rest[p] = "<" /\ \A q \in 1..(p - 1) : rest[q] # "<") - 1
                 ELSE Len(rest)
    IN  SelectSeq(SubSeq(rest, 1, stop), NotGt)

\* author.endswith(self.config.get("email-domain"))
EndsWithDomain(email) == Len(email) > 0 /\ email[Len(email)] = EmailDomain

\* Local wall-clock offset of an author's commits, in minutes.
LocalOffset(author) ==
    IF author = AuthorA THEN 120 ELSE IF author = AuthorB THEN -90 ELSE 0

Digit2(n) == <<48 + ((n \div 10) % 10), 48 + (n % 10)>>

\* get_tzinfo_from_dt on two naive date-times given in minutes: "+HH:MM" or
\* "-HH:MM" from the seconds-within-a-day part of the absolute difference.
get_tzinfo_from_dt(dt1, dt2) ==
    LET diff    == dt2 - dt1
        prefix  == IF diff < 0 THEN 45 ELSE 43
        mins    == (IF diff < 0 THEN -diff ELSE diff) % 1440
        hours   == mins \div 60
        minutes == mins % 60
    IN  <<prefix>> \o Digit2(hours) \o <<58>> \o Digit2(minutes)

\* dateutil.parser.parse of a timestamp string, in minutes (one day apart).
ParseMinutes(s) == StampNum(s) * 1440

(* ------------------------------ upstream ------------------------------ *)

\* Commit descriptors of one history of n commits, most recent first; a
\* commit's revision id (node) is its position in the history.
HistoriesOfLen(n) ==
    {[p \in 1..n |->
        [utctimestamp |-> f[p][1],
         timestamp    |-> ParseMinutes(f[p][1]) + LocalOffset(f[p][2]),
         raw_author   |-> f[p][2],
         node         |-> p]] : f \in [1..n -> LaterStamps \X Authors]}

Histories == UNION {HistoriesOfLen(n) : n \in 0..MaxHist}

\* Repository descriptors of the listing call; "" is a missing slug.
Slugs == {"", "repo-a"}

(* ------------------------------- state -------------------------------- *)

VARIABLES
    repos,                \* upstream: the repository listing
    hist,                 \* upstream: each listed repository's commit history
    redis,                \* checkpoint store: "bitbucket-<slug>-pushed_at"
    post_queue,           \* self.post_queue
    pc,                   \* position in process()
    run,                  \* which run of the program this is
    i,                    \* process(): index of the repository in the loop
    last_processed,       \* _process_repo: the checkpoint read at the start
    last_processed_save,  \* _process_repo: best_seen
    last_commit,          \* _process_repo: the cursor (0 is None)
    commits,              \* _process_repo: the page being scanned
    k,                    \* _process_repo: position in the page
    ret,                  \* value _process_repo returned
    ckpt0,                \* history: the checkpoints when this run started
    scanned,              \* history: nodes scanned in this sync
    emitted,              \* history: nodes enqueued in this sync, in order
    fetches,              \* history: history requests of this sync
    exit,                 \* history: how this sync's engine ended
    posts,                \* history: POSTs of this run
    last_call,            \* history: what the last call of post() did
    enq_events,           \* history: every event ever enqueued
    acked,                \* history: every event of an acknowledged batch
    n_enq,                \* batcher specification: calls of post(data)
    auto_posts,           \* batcher specification: requests those calls made
    flushed,              \* batcher specification: post_finished() was called
    time_str,             \* parser specification: argument of parse_timestamp_utc
    parse_out             \* parser specification: what parse_timestamp_utc returned

env_vars == <<repos, hist>>

engine_vars == <<last_processed, last_processed_save, last_commit, commits, k, ret>>

sync_hist == <<scanned, emitted, fetches, exit>>

api_vars == <<n_enq, auto_posts, flushed>>

parse_vars == <<time_str, parse_out>>

vars == <<repos, hist, redis, post_queue, pc, run, i, last_processed,
          last_processed_save, last_commit, commits, k, ret, ckpt0, scanned,
          emitted, fetches, exit, posts, last_call, enq_events, acked, n_enq,
          auto_posts, flushed, time_str, parse_out>>

(* ------------------------------ batcher ------------------------------- *)

\* Queue length above which post(data) sends.
FlushLimit == 100

\* Response bodies of the notification endpoint.
Responses == {"OK", "ok", "ERROR"}

NoCall == [kind |-> "none", posted |-> FALSE, cont |-> "", body |-> <<>>]

\* NeedsRequest with the threshold test off by one.
NeedsRequestAtLimit(queue, data_is_none) ==
    Len(queue) >= FlushLimit \/ (Len(queue) > 0 /\ data_is_none)

\* QueueAfterRequest clearing the queue whatever the answer.
QueueAfterRequestAlwaysCleared(queue, cont) == <<>>

\* post(): the test that decides whether a request is made, on the queue
\* after the append.
NeedsRequest(queue, data_is_none) ==
    Len(queue) > FlushLimit \/ (Len(queue) > 0 /\ data_is_none)

\* post(): the queue after the endpoint answered cont.
QueueAfterRequest(queue, cont) == IF cont = "OK" THEN <<>> ELSE queue

\* Whether post(data) on the current queue makes a request.
Requests(data) == NeedsRequest(post_queue \o data, data = <<>>)

\* post(data) for data a sequence of no event (None) or one event, the
\* endpoint answering cont if asked.
post(data, cont) ==
    LET queue == post_queue \o data
    IN  /\ post_queue' = IF Requests(data) THEN QueueAfterRequest(queue, cont)
                         ELSE queue
        /\ last_call' = [kind   |-> IF data = <<>> THEN "finished" ELSE "enqueue",
                         posted |-> Requests(data),
                         cont   |-> IF Requests(data) THEN cont ELSE "",
                         body   |-> IF Requests(data) THEN queue ELSE <<>>]

\* The record of a run's deliveries that post(data) leaves behind.
delivered(data, cont) ==
    LET queue == post_queue \o data
    IN  /\ posts' = IF Requests(data) THEN posts + 1 ELSE posts
        /\ enq_events' = enq_events \cup {data[p] : p \in 1..Len(data)}
        /\ acked' = IF Requests(data) /\ cont = "OK"
                    THEN acked \cup {queue[p] : p \in 1..Len(queue)}
                    ELSE acked

(* ------------------------------- engine ------------------------------- *)

\* The response to get_commits(name, last_commit) for the j-th repository:
\* at most PageLimit commits, most recent first, starting at the cursor
\* commit (at the newest commit when there is no cursor).
Page(j, start) ==
    LET from == IF start = 0 THEN 1 ELSE start
    IN  SubSeq(hist[j], from, Min(Len(hist[j]), from + PageLimit - 1))

\* What a history request can answer: the page, an empty commit list, or a
\* body without a commit list.
get_commits(j, start) ==
    {[has_changesets |-> TRUE,  changesets |-> Page(j, start)],
     [has_changesets |-> TRUE,  changesets |-> <<>>],
     [has_changesets |-> FALSE, changesets |-> <<>>]}

\* BestSeen never advancing.
BestSeenStale(timestamp, save) == save

\* if timestamp > last_processed_save: last_processed_save = timestamp
BestSeen(timestamp, save) == IF LexGT(timestamp, save) THEN timestamp ELSE save

\* Newer with the comparison turned round.
NewerReversed(timestamp, checkpoint) == LexLT(timestamp, checkpoint)

\* Newer with the boundary included.
NewerOrEqual(timestamp, checkpoint) == LexGE(timestamp, checkpoint)

\* if timestamp > last_processed
Newer(timestamp, checkpoint) == LexGT(timestamp, checkpoint)

\* Filtered without the domain test.
FilteredNoDomainTest(author) == ~HasEmail(author)

\* The author passes neither `"<" in author` nor the domain test.
Filtered(author) ==
    IF HasEmail(author) THEN ~EndsWithDomain(EmailOf(author)) ELSE TRUE

\* The event post()ed for a commit of repository name.
EventOf(commit, name) ==
    [system    |-> "bitbucket-commits",
     timestamp |-> commit.utctimestamp,
     username  |-> EmailOf(commit.raw_author),
     data      |-> name,
     is_utc    |-> TRUE,
     tzinfo    |-> get_tzinfo_from_dt(ParseMinutes(commit.utctimestamp),
                                      commit.timestamp)]

\* What parse_timestamp_utc has returned before it was called.
NoResult == [parsed |-> 0, offset_str |-> <<>>]

\* NothingNew with a strict comparison.
NothingNewStrict(stored, last_change) == LexGT(stored, last_change)

\* if last_processed >= last_change: continue
NothingNew(stored, last_change) == LexGE(stored, last_change)

\* OnlyStart never recognising the one-commit page.
OnlyStartNever(page) == FALSE

\* if len(commits["changesets"]) == 1: only the start commit came back.
OnlyStart(page) == Len(page) = 1

\* self.redis.get(key), or the epoch when there is none.
StoredOrEpoch(value) == IF value = PyNone \/ value = <<>> THEN Epoch ELSE value

\* The string redis keeps for a value handed to self.redis.set.
RedisEncode(value) == IF value = PyNone THEN NoneStr ELSE value

(* ------------------------------ process() ----------------------------- *)

\* process(): get_repositories() and the start of the loop.
GetRepositories ==
    /\ pc = "start"
    /\ pc' = "loop"
    /\ i' = 1
    /\ ckpt0' = redis
    /\ UNCHANGED <<env_vars, parse_vars, redis, post_queue, run, engine_vars, sync_hist,
                   posts, last_call, enq_events, acked, api_vars>>

\* for repo in repositories: the listing is exhausted.
ProcessDone ==
    /\ pc = "loop"
    /\ i > Len(repos)
    /\ pc' = "done"
    /\ UNCHANGED <<env_vars, parse_vars, redis, post_queue, run, i, engine_vars, ckpt0,
                   sync_hist, posts, last_call, enq_events, acked, api_vars>>

\* if not name: continue
SkipNoSlug ==
    /\ pc = "loop"
    /\ i <= Len(repos)
    /\ repos[i].slug = ""
    /\ i' = i + 1
    /\ UNCHANGED <<env_vars, parse_vars, redis, post_queue, pc, run, engine_vars, ckpt0,
                   sync_hist, posts, last_call, enq_events, acked, api_vars>>

\* if last_processed >= last_change: continue
SkipUnchanged ==
    /\ pc = "loop"
    /\ i <= Len(repos)
    /\ repos[i].slug # ""
    /\ NothingNew(StoredOrEpoch(redis[i]), repos[i].last_updated)
    /\ i' = i + 1
    /\ UNCHANGED <<env_vars, parse_vars, redis, post_queue, pc, run, engine_vars, ckpt0,
                   sync_hist, posts, last_call, enq_events, acked, api_vars>>

\* last_processed_save = self._process_repo(name, last_processed): entry.
ProcessRepo ==
    /\ pc = "loop"
    /\ i <= Len(repos)
    /\ repos[i].slug # ""
    /\ ~NothingNew(StoredOrEpoch(redis[i]), repos[i].last_updated)
    /\ last_processed' = StoredOrEpoch(redis[i])
    /\ last_processed_save' = StoredOrEpoch(redis[i])
    /\ last_commit' = 0
    /\ commits' = <<>>
    /\ k' = 0
    /\ ret' = PyNone
    /\ scanned' = {}
    /\ emitted' = <<>>
    /\ fetches' = 0
    /\ exit' = "none"
    /\ pc' = "fetch"
    /\ UNCHANGED <<env_vars, parse_vars, redis, post_queue, run, i, ckpt0, posts,
                   last_call, enq_events, acked, api_vars>>

\* _process_repo: a history request answered without commits: break, and
\* the function ends without a return statement.
FetchBreak ==
    /\ pc = "fetch"
    /\ fetches < MaxFetch
    /\ \E resp \in get_commits(i, last_commit) :
           ~resp.has_changesets \/ Len(resp.changesets) = 0
    /\ fetches' = fetches + 1
    /\ ret' = PyNone
    /\ exit' = "break"
    /\ pc' = "set"
    /\ UNCHANGED <<env_vars, parse_vars, redis, post_queue, run, i, last_processed,
                   last_processed_save, last_commit, commits, k, ckpt0,
                   scanned, emitted, posts, last_call, enq_events, acked,
                   api_vars>>

\* _process_repo: a history request answered with a page of commits.
FetchPage ==
    /\ pc = "fetch"
    /\ fetches < MaxFetch
    /\ \E resp \in get_commits(i, last_commit) :
           /\ resp.has_changesets
           /\ Len(resp.changesets) # 0
           /\ commits' = resp.changesets
           /\ last_commit' = resp.changesets[1].node
    /\ fetches' = fetches + 1
    /\ k' = 1
    /\ pc' = "scan"
    /\ UNCHANGED <<env_vars, parse_vars, redis, post_queue, run, i, last_processed,
                   last_processed_save, ret, ckpt0, scanned, emitted, exit,
                   posts, last_call, enq_events, acked, api_vars>>

\* for commit in commits["changesets"]: a commit the author tests skip.
ScanSkip ==
    /\ pc = "scan"
    /\ k <= Len(commits)
    /\ Filtered(commits[k].raw_author)
    /\ last_processed_save' = BestSeen(commits[k].utctimestamp, last_processed_save)
    /\ scanned' = scanned \cup {commits[k].node}
    /\ k' = k + 1
    /\ UNCHANGED <<env_vars, parse_vars, redis, post_queue, pc, run, i, last_processed,
                   last_commit, commits, ret, ckpt0, emitted, fetches, exit,
                   posts, last_call, enq_events, acked, api_vars>>

\* for commit in commits["changesets"]: a commit that is posted.
ScanEmit ==
    /\ pc = "scan"
    /\ k <= Len(commits)
    /\ ~Filtered(commits[k].raw_author)
    /\ Newer(commits[k].utctimestamp, last_processed)
    /\ last_processed_save' = BestSeen(commits[k].utctimestamp, last_processed_save)
    /\ scanned' = scanned \cup {commits[k].node}
    /\ emitted' = Append(emitted, commits[k].node)
    /\ \E cont \in Responses :
           /\ post(<<EventOf(commits[k], repos[i].slug)>>, cont)
           /\ delivered(<<EventOf(commits[k], repos[i].slug)>>, cont)
    /\ k' = k + 1
    /\ UNCHANGED <<env_vars, parse_vars, redis, pc, run, i, last_processed, last_commit,
                   commits, ret, ckpt0, fetches, exit, api_vars>>

\* for commit in commits["changesets"]: a commit at or below the
\* checkpoint: return last_processed_save.
ScanStop ==
    /\ pc = "scan"
    /\ k <= Len(commits)
    /\ ~Filtered(commits[k].raw_author)
    /\ ~Newer(commits[k].utctimestamp, last_processed)
    /\ last_processed_save' = BestSeen(commits[k].utctimestamp, last_processed_save)
    /\ scanned' = scanned \cup {commits[k].node}
    /\ ret' = BestSeen(commits[k].utctimestamp, last_processed_save)
    /\ exit' = "stop"
    /\ pc' = "set"
    /\ UNCHANGED <<env_vars, parse_vars, redis, post_queue, run, i, last_processed,
                   last_commit, commits, k, ckpt0, emitted, fetches, posts,
                   last_call, enq_events, acked, api_vars>>

\* The page is exhausted and held one commit: return last_processed_save.
PageSingle ==
    /\ pc = "scan"
    /\ k > Len(commits)
    /\ OnlyStart(commits)
    /\ ret' = last_processed_save
    /\ exit' = "single"
    /\ pc' = "set"
    /\ UNCHANGED <<env_vars, parse_vars, redis, post_queue, run, i, last_processed,
                   last_processed_save, last_commit, commits, k, ckpt0,
                   scanned, emitted, fetches, posts, last_call, enq_events,
                   acked, api_vars>>

\* The page is exhausted and held more than one commit: while True again.
PageNext ==
    /\ pc = "scan"
    /\ k > Len(commits)
    /\ ~OnlyStart(commits)
    /\ pc' = "fetch"
    /\ UNCHANGED <<env_vars, parse_vars, redis, post_queue, run, i, engine_vars, ckpt0,
                   sync_hist, posts, last_call, enq_events, acked, api_vars>>

\* self.redis.set(repo_key+"pushed_at", last_processed_save)
RedisSet ==
    /\ pc = "set"
    /\ redis' = [redis EXCEPT ![i] = RedisEncode(ret)]
    /\ pc' = "finish"
    /\ UNCHANGED <<env_vars, parse_vars, post_queue, run, i, engine_vars, ckpt0,
                   sync_hist, posts, last_call, enq_events, acked, api_vars>>

\* self.post_finished(), and on to the next repository.
PostFinished ==
    /\ pc = "finish"
    /\ \E cont \in Responses : post(<<>>, cont) /\ delivered(<<>>, cont)
    /\ i' = i + 1
    /\ pc' = "loop"
    /\ UNCHANGED <<env_vars, parse_vars, redis, run, engine_vars, ckpt0, sync_hist,
                   api_vars>>

\* An http.request call raises (a transport error): the exception leaves
\* process() and the run is over.  The calls are the listing call, a history
\* call, the end-of-repository POST of a non-empty queue, and the POST that
\* post(data) makes for a commit when the queue is over the limit.
Abort ==
    /\ \/ pc = "start"
       \/ pc = "fetch" /\ fetches < MaxFetch
       \/ pc = "finish" /\ Requests(<<>>)
       \/ /\ pc = "scan"
          /\ k <= Len(commits)
          /\ ~Filtered(commits[k].raw_author)
          /\ Newer(commits[k].utctimestamp, last_processed)
          /\ Requests(<<EventOf(commits[k], repos[i].slug)>>)
    /\ IF pc = "scan"
       THEN /\ last_processed_save' =
                   BestSeen(commits[k].utctimestamp, last_processed_save)
            /\ post_queue' = Append(post_queue, EventOf(commits[k], repos[i].slug))
       ELSE UNCHANGED <<last_processed_save, post_queue>>
    /\ pc' = "aborted"
    /\ UNCHANGED <<env_vars, parse_vars, redis, run, i, last_processed,
                   last_commit, commits, k, ret, ckpt0, sync_hist, posts,
                   last_call, enq_events, acked, api_vars>>

\* main() once more: a new process, a new BitbucketUpdate with an empty
\* queue, the same upstream and the same checkpoint store.
NextRun ==
    /\ pc = "done"
    /\ run < MaxRuns
    /\ run' = run + 1
    /\ pc' = "start"
    /\ post_queue' = <<>>
    /\ i' = 0
    /\ last_processed' = PyNone
    /\ last_processed_save' = PyNone
    /\ last_commit' = 0
    /\ commits' = <<>>
    /\ k' = 0
    /\ ret' = PyNone
    /\ scanned' = {}
    /\ emitted' = <<>>
    /\ fetches' = 0
    /\ exit' = "none"
    /\ posts' = 0
    /\ last_call' = NoCall
    /\ UNCHANGED <<env_vars, parse_vars, redis, ckpt0, enq_events, acked, api_vars>>

\* The state of a new process before process() is called.
Fresh ==
    /\ post_queue = <<>>
    /\ run = 1
    /\ i = 0
    /\ last_processed = PyNone
    /\ last_processed_save = PyNone
    /\ last_commit = 0
    /\ commits = <<>>
    /\ k = 0
    /\ ret = PyNone
    /\ scanned = {}
    /\ emitted = <<>>
    /\ fetches = 0
    /\ exit = "none"
    /\ posts = 0
    /\ last_call = NoCall
    /\ enq_events = {}
    /\ acked = {}
    /\ n_enq = 0
    /\ auto_posts = 0
    /\ flushed = FALSE
    /\ time_str = <<>>
    /\ parse_out = NoResult

\* One listed repository, with any history and any stored checkpoint.
Init ==
    /\ \E slug \in Slugs, updated \in LaterStamps, h \in Histories,
          c \in {PyNone} \cup LaterStamps :
           /\ slug = "" => h = <<>> /\ c = PyNone
           /\ repos = <<[slug |-> slug, last_updated |-> updated]>>
           /\ hist = <<h>>
           /\ redis = <<c>>
    /\ ckpt0 = redis
    /\ pc = "start"
    /\ Fresh

Next ==
    \/ GetRepositories
    \/ ProcessDone
    \/ SkipNoSlug
    \/ SkipUnchanged
    \/ ProcessRepo
    \/ FetchBreak
    \/ FetchPage
    \/ ScanSkip
    \/ ScanEmit
    \/ ScanStop
    \/ PageSingle
    \/ PageNext
    \/ RedisSet
    \/ PostFinished
    \/ Abort
    \/ NextRun

Spec == Init /\ [][Next]_vars

(* ----------------------- the batcher on its own ----------------------- *)

\* The n-th event a caller hands to post().
ApiEvent(n) ==
    [system    |-> "bitbucket-commits",
     timestamp |-> Stamp(n),
     username  |-> EmailOf(AuthorA),
     data      |-> "repo-a",
     is_utc    |-> TRUE,
     tzinfo    |-> get_tzinfo_from_dt(0, LocalOffset(AuthorA))]

\* A caller calls post(data).
ApiPost ==
    /\ pc = "api"
    /\ n_enq < MaxPostCalls
    /\ \E cont \in Responses : post(<<ApiEvent(n_enq + 1)>>, cont)
    /\ n_enq' = n_enq + 1
    /\ auto_posts' = IF Requests(<<ApiEvent(n_enq + 1)>>)
                     THEN auto_posts + 1 ELSE auto_posts
    /\ UNCHANGED <<env_vars, parse_vars, redis, pc, run, i, engine_vars, ckpt0, sync_hist,
                   posts, enq_events, acked, flushed>>

\* A caller calls post_finished().
ApiPostFinished ==
    /\ pc = "api"
    /\ \E cont \in Responses : post(<<>>, cont)
    /\ flushed' = TRUE
    /\ UNCHANGED <<env_vars, parse_vars, redis, pc, run, i, engine_vars, ckpt0, sync_hist,
                   posts, enq_events, acked, n_enq, auto_posts>>

InitPost ==
    /\ repos = <<>>
    /\ hist = <<>>
    /\ redis = <<>>
    /\ ckpt0 = <<>>
    /\ pc = "api"
    /\ Fresh

NextPost ==
    \/ ApiPost
    \/ ApiPostFinished

SpecPost == InitPost /\ [][NextPost]_vars

(* ------------------------------- claims ------------------------------- *)

IsPrefix(s, t) == Len(s) <= Len(t) /\ SubSeq(t, 1, Len(s)) = s

\* The engine of repository i is running or has just returned.
InSync == pc \in {"fetch", "scan", "set", "finish"}

\* The engine of repository i has returned.
Returned == pc \in {"set", "finish"}

\* The commit of the repository being synchronised that has node n.
CommitAt(n) == hist[i][n]

Qualifies(n) ==
    /\ ~Filtered(CommitAt(n).raw_author)
    /\ LexGT(CommitAt(n).utctimestamp, last_processed)

\* C1: a checkpoint that this run changed is a timestamp string, the prior
\* checkpoint or the timestamp of a commit of the repository, and is
\* lexicographically at or above the checkpoint stored before the run.
C1_CheckpointMonotone ==
    \A j \in 1..Len(redis) :
        redis[j] # ckpt0[j]
          => /\ IsStamp(redis[j])
             /\ LexGE(redis[j], StoredOrEpoch(ckpt0[j]))
             /\ \E n \in 1..Len(hist[j]) : hist[j][n].utctimestamp = redis[j]

\* C2: a run that follows a completed run against the same upstream
\* enqueues no event.
C2_SecondRunEnqueuesNothing ==
    run > 1 => (emitted = <<>> /\ post_queue = <<>> /\ last_call.kind # "enqueue")

\* C2 witness: the second run has scanned commits of a repository whose
\* first run enqueued events, and is over.
C2_Witness ==
    /\ run = 2
    /\ pc = "done"
    /\ scanned # {}
    /\ enq_events # {}

\* C3: when a run is over, every event that was enqueued has been part of
\* an acknowledged batch, or its commit is still above the repository's
\* checkpoint so that a later run sends it.
C3_AtLeastOnce ==
    pc = "done" =>
        \A e \in enq_events :
            \/ e \in acked
            \/ \E j \in 1..Len(repos) :
                   /\ repos[j].slug = e.data
                   /\ LexGT(e.timestamp, StoredOrEpoch(redis[j]))

\* C4: no event is enqueued for a commit the author tests filter, and the
\* value the engine returns is at or above the timestamp of every commit it
\* scanned.
C4_DomainFilter ==
    InSync =>
        /\ \A p \in 1..Len(emitted) : ~Filtered(CommitAt(emitted[p]).raw_author)
        /\ Returned => \A n \in scanned : LexGE(ret, CommitAt(n).utctimestamp)

\* C5: every commit enqueued in a sync is strictly newer than the
\* checkpoint read at its start; a domain-matching commit at or below the
\* checkpoint is not enqueued and ends the scan; and the value returned at
\* that stop is best_seen, at or above every scanned commit's timestamp.
C5_ExclusiveBoundary ==
    InSync =>
        /\ \A p \in 1..Len(emitted) :
               LexGT(CommitAt(emitted[p]).utctimestamp, last_processed)
        /\ \A n \in scanned :
               (~Filtered(CommitAt(n).raw_author) /\ ~Qualifies(n))
                 => /\ exit = "stop"
                    /\ Returned
                    /\ commits[k].node = n
                    /\ \A p \in 1..Len(emitted) : emitted[p] # n
        /\ exit = "stop"
             => /\ ret = last_processed_save
                /\ LexGE(ret, last_processed)
                /\ \A n \in scanned : LexGE(ret, CommitAt(n).utctimestamp)

\* C5 witness: the scan stopped at a domain-matching commit whose timestamp
\* equals the checkpoint, after enqueuing a newer one.
C5_Witness ==
    /\ pc = "set"
    /\ exit = "stop"
    /\ emitted # <<>>
    /\ commits[k].utctimestamp = last_processed

\* The first listed repository has no stored checkpoint and a history of
\* one page of more than one commit, all of the configured domain.
SinglePageCase ==
    /\ run = 1
    /\ Len(repos) >= 1
    /\ repos[1].slug # ""
    /\ ckpt0[1] = PyNone
    /\ Len(hist[1]) > 1
    /\ Len(hist[1]) <= PageLimit
    /\ \A n \in 1..Len(hist[1]) : ~Filtered(hist[1][n].raw_author)
    /\ exit # "break"

\* C6: in the single-page case the sync enqueues the page's commits once
\* each, in page order, and when the run is over the checkpoint is the
\* largest commit timestamp and one POST was made.
C6_SinglePageSync ==
    SinglePageCase =>
        /\ IsPrefix(emitted, [n \in 1..Len(hist[1]) |-> n])
        /\ pc = "done"
             => /\ Len(emitted) = Len(hist[1])
                /\ \A n \in 1..Len(hist[1]) :
                       LexGE(redis[1], hist[1][n].utctimestamp)
                /\ \E n \in 1..Len(hist[1]) : redis[1] = hist[1][n].utctimestamp
                /\ posts = 1

\* C7: when the engine stopped on a response without commits, the value it
\* returned is best_seen, and that value is what is stored as checkpoint.
C7_NoCommitsReturnsBestSeen ==
    (Returned /\ exit = "break") =>
        /\ ret = last_processed_save
        /\ pc = "finish" => redis[i] = last_processed_save

\* C8: within one sync every scanned commit that is domain-matching and
\* newer than the checkpoint is enqueued, and no commit is enqueued twice.
C8_OncePerCommit ==
    InSync =>
        /\ \A n \in scanned :
               Qualifies(n) => \E p \in 1..Len(emitted) : emitted[p] = n
        /\ \A p, q \in 1..Len(emitted) : p # q => emitted[p] # emitted[q]

\* C9: a response other than the literal "OK" leaves the queue as it was
\* (with the event of this call appended), same events in the same order;
\* a non-empty queue becomes empty only by a request answered "OK"; and the
\* body of every request is the retained queue followed by at most the one
\* event of this call.
C9_FailedDeliveryKeepsQueue ==
    [][/\ (last_call'.posted /\ last_call'.cont # "OK")
            => (post_queue' = last_call'.body /\ IsPrefix(post_queue, post_queue'))
       /\ (post_queue # <<>> /\ post_queue' = <<>>)
            => (last_call'.posted /\ last_call'.cont = "OK")
       /\ last_call'.posted
            => /\ IsPrefix(post_queue, last_call'.body)
               /\ Len(last_call'.body) <= Len(post_queue) + 1
               /\ last_call'.kind = "finished" => last_call'.body = post_queue]_vars

\* C9 witness: a request that failed while the queue already held the
\* events of an earlier failed request, all of them still queued.
C9_Witness ==
    /\ last_call.posted
    /\ last_call.cont # "OK"
    /\ Len(post_queue) = FlushLimit + 2
    /\ post_queue = last_call.body

\* C10: from an empty queue and without post_finished(), the first 100
\* calls of post(data) make no request and the 101st makes exactly one;
\* a request whose body holds 100 events or fewer is made by
\* post_finished() only.
C10_FlushThreshold ==
    /\ (~flushed /\ n_enq <= FlushLimit)
         => (auto_posts = 0 /\ ~last_call.posted /\ Len(post_queue) = n_enq)
    /\ (~flushed /\ n_enq = FlushLimit + 1)
         => (auto_posts = 1 /\ last_call.posted /\ last_call.kind = "enqueue"
             /\ Len(last_call.body) = FlushLimit + 1)
    /\ (last_call.posted /\ Len(last_call.body) <= FlushLimit)
         => last_call.kind = "finished"

\* C10 witness: the 101st enqueue has just made the one request.
C10_Witness ==
    /\ ~flushed
    /\ n_enq = FlushLimit + 1
    /\ auto_posts = 1
    /\ last_call.posted

\* C11: in a repository with exactly one commit the engine makes one
\* history request and no second one, whatever the commit's author and
\* timestamp; the page it got holds that one commit.
C11_SingleCommitTermination ==
    (InSync /\ Len(hist[i]) = 1) =>
        /\ fetches <= 1
        /\ Returned => fetches = 1
        /\ (Returned /\ exit # "break")
             => (Len(commits) = 1 /\ exit \in {"single", "stop"})

\* C11 witness: the engine returned after the one-commit page of a
\* repository whose only commit the author tests filter.
C11_Witness ==
    /\ pc = "set"
    /\ Len(hist[i]) = 1
    /\ exit = "single"
    /\ fetches = 1
    /\ Filtered(hist[i][1].raw_author)

(* ------------------------ parse_timestamp_utc ------------------------- *)

\* "2024-03-DD HH:00:00"
DateTimeText(day, hour) ==
    <<50, 48, 50, 52, 45, 48, 51, 45>> \o Digit2(day) \o <<32>> \o Digit2(hour)
        \o <<58, 48, 48, 58, 48, 48>>

\* "+HH:MM" or "-HH:MM" for an offset in minutes east (sign 43) or west
\* (sign 45) of UTC.
OffsetText(sign, minutes) ==
    <<sign>> \o Digit2(minutes \div 60) \o <<58>> \o Digit2(minutes % 60)

OffsetTexts ==
    {OffsetText(sign, m) : sign \in {43, 45}, m \in {0, 120, 330}}

\* Timestamp texts: a date-time, with or without an offset suffix.
TimeTexts ==
    {DateTimeText(day, hour) \o suffix :
        day \in 1..3, hour \in {0, 12, 23}, suffix \in {<<>>} \cup OffsetTexts}

Num2(s, p) == (s[p] - 48) * 10 + (s[p + 1] - 48)

\* dateutil.parser.parse: the naive date-time in minutes and the tzinfo
\* (the signed offset in minutes) of a timestamp text.
ParseText(text) ==
    [naive  |-> Num2(text, 9) * 1440 + Num2(text, 12) * 60 + Num2(text, 15),
     has_tz |-> Len(text) > 19,
     offset |-> IF Len(text) > 19
                THEN (IF text[20] = 45 THEN -1 ELSE 1)
                       * (Num2(text, 21) * 60 + Num2(text, 24))
                ELSE 0]

\* str(parsed): "YYYY-MM-DD HH:MM:SS", followed by "+HH:MM" or "-HH:MM"
\* when the date-time is aware.
StrOfParsed(dt) ==
    LET day  == dt.naive \div 1440
        hour == (dt.naive % 1440) \div 60
        min  == dt.naive % 60
        base == <<50, 48, 50, 52, 45, 48, 51, 45>> \o Digit2(day) \o <<32>>
                  \o Digit2(hour) \o <<58>> \o Digit2(min) \o <<58, 48, 48>>
    IN  IF dt.has_tz
        THEN base \o OffsetText(IF dt.offset < 0 THEN 45 ELSE 43,
                                IF dt.offset < 0 THEN -dt.offset ELSE dt.offset)
        ELSE base

\* s.rsplit(ch, 1): s alone when ch is not in it, else the text before and
\* the text after the last ch.
RSplit1(s, ch) ==
    IF \E p \in 1..Len(s) : s[p] = ch
    THEN LET last == CHOOSE p \in 1..Len(s) :
                         s[p] = ch /\ \A q \in (p + 1)..Len(s) : s[q] # ch
         IN  <<SubSeq(s, 1, last - 1), SubSeq(s, last + 1, Len(s))>>
    ELSE <<s>>

\* parse_timestamp_utc(time_str): (parsed, offset_str).
parse_timestamp_utc(text) ==
    LET parsed == ParseText(text)
        plus   == RSplit1(StrOfParsed(parsed), 43)
        split  == IF Len(plus) = 1 THEN RSplit1(plus[1], 45) ELSE plus
        prefix == IF Len(plus) = 1 THEN 45 ELSE 43
        offset == IF parsed.has_tz THEN parsed.offset ELSE 0
    IN  [parsed     |-> parsed.naive - offset,
         offset_str |-> IF Len(split) = 2 THEN <<prefix>> \o split[2] ELSE <<>>]

\* A caller calls parse_timestamp_utc(time_str).
ParseTimestampUtc ==
    /\ pc = "parse"
    /\ parse_out' = parse_timestamp_utc(time_str)
    /\ pc' = "parsed"
    /\ UNCHANGED <<env_vars, time_str, redis, post_queue, run, i, engine_vars,
                   ckpt0, sync_hist, posts, last_call, enq_events, acked,
                   api_vars>>

InitParse ==
    /\ repos = <<>>
    /\ hist = <<>>
    /\ redis = <<>>
    /\ ckpt0 = <<>>
    /\ pc = "parse"
    /\ post_queue = <<>>
    /\ run = 1
    /\ i = 0
    /\ last_processed = PyNone
    /\ last_processed_save = PyNone
    /\ last_commit = 0
    /\ commits = <<>>
    /\ k = 0
    /\ ret = PyNone
    /\ scanned = {}
    /\ emitted = <<>>
    /\ fetches = 0
    /\ exit = "none"
    /\ posts = 0
    /\ last_call = NoCall
    /\ enq_events = {}
    /\ acked = {}
    /\ n_enq = 0
    /\ auto_posts = 0
    /\ flushed = FALSE
    /\ time_str \in TimeTexts
    /\ parse_out = NoResult

NextParse == ParseTimestampUtc

SpecParse == InitParse /\ [][NextParse]_vars

\* The offset suffix a timestamp text carries, empty when it carries none.
SuffixOf(text) == SubSeq(text, 20, Len(text))

\* C12: the offset string parse_timestamp_utc returns is the signed suffix
\* of the text, and is empty for a text without a suffix.
C12_OffsetString ==
    pc = "parsed" => parse_out.offset_str = SuffixOf(time_str)

\* C13 as claimed: a scanned commit at or below the checkpoint has stopped
\* the engine, whoever its author is.
C13_StopAtFirstOld ==
    InSync =>
        \A n \in scanned :
            ~LexGT(CommitAt(n).utctimestamp, last_processed)
              => (exit = "stop" /\ Returned)

\* C13 as amended: the engine stops at the first commit of the configured
\* domain whose timestamp is at or below the checkpoint, and only there;
\* once stopped, nothing more is scanned, enqueued or fetched in this sync.
C13_StopRule ==
    /\ [](InSync =>
            /\ \A n \in scanned :
                   (CommitAt(n).raw_author = AuthorA
                      /\ ~LexGT(CommitAt(n).utctimestamp, last_processed))
                     => (exit = "stop" /\ Returned /\ commits[k].node = n)
            /\ exit = "stop"
                 => /\ Returned
                    /\ commits[k].raw_author = AuthorA
                    /\ ~LexGT(commits[k].utctimestamp, last_processed))
    /\ [][(exit = "stop" /\ exit' = "stop")
            => UNCHANGED <<scanned, emitted, fetches, commits, k, last_commit>>]_vars

\* C13 witness: the engine stopped after it had skipped a filtered commit
\* that is at or below the checkpoint.
C13_Witness ==
    /\ pc = "set"
    /\ exit = "stop"
    /\ \E n \in scanned :
           /\ Filtered(CommitAt(n).raw_author)
           /\ ~LexGT(CommitAt(n).utctimestamp, last_processed)

\* C14: when a page of more than one commit, all newer than the checkpoint,
\* is exhausted, the cursor of the next history request is the revision id
\* of the oldest (last) commit of that page.
C14_BackwardPagination ==
    (/\ pc = "fetch"
     /\ fetches >= 1
     /\ Len(commits) > 1
     /\ \A p \in 1..Len(commits) :
            LexGT(commits[p].utctimestamp, last_processed))
      => last_commit = commits[Len(commits)].node

(* ------------------------ two listed repositories --------------------- *)

\* Histories of the two-repository listing: none, one commit, or the two
\* commits of one author in order.
MultiHistories ==
    HistoriesOfLen(0)
      \cup {h \in HistoriesOfLen(1) : h[1].utctimestamp \in {Stamp(1), Stamp(2)}}
      \cup {h \in HistoriesOfLen(2) :
              /\ h[1].raw_author = AuthorA /\ h[1].utctimestamp = Stamp(2)
              /\ h[2].raw_author = AuthorA /\ h[2].utctimestamp = Stamp(1)}

\* What the upstream and the checkpoint store hold for a repository name.
MultiRepos(name) ==
    {[slug |-> "", last_updated |-> Stamp(2), hist |-> <<>>, stored |-> PyNone]}
      \cup {[slug |-> name, last_updated |-> u, hist |-> h, stored |-> c] :
              u \in {Stamp(2), Stamp(3)}, h \in MultiHistories,
              c \in {PyNone, Stamp(2)}}

\* Two listed repositories.
InitMulti ==
    /\ \E a \in MultiRepos("repo-a"), b \in MultiRepos("repo-b") :
           /\ repos = <<[slug |-> a.slug, last_updated |-> a.last_updated],
                        [slug |-> b.slug, last_updated |-> b.last_updated]>>
           /\ hist = <<a.hist, b.hist>>
           /\ redis = <<a.stored, b.stored>>
    /\ ckpt0 = redis
    /\ pc = "start"
    /\ Fresh

SpecMulti == InitMulti /\ [][Next]_vars

\* The loop of process() is at a repository it skips.
SkipCase ==
    /\ pc = "loop"
    /\ i <= Len(repos)
    /\ \/ repos[i].slug = ""
       \/ LexGE(StoredOrEpoch(redis[i]), repos[i].last_updated)

\* The loop of process() is at a repository it synchronises.
ProcessCase ==
    /\ pc = "loop"
    /\ i <= Len(repos)
    /\ repos[i].slug # ""
    /\ ~LexGE(StoredOrEpoch(redis[i]), repos[i].last_updated)

\* C15: a repository without slug or with a checkpoint at or above its
\* last-updated time is passed over with no history request, checkpoint
\* write, enqueue or POST; any other repository gets the engine run on the
\* checkpoint just read, then the one checkpoint write, then the final
\* flush, and only then does the loop move to the next repository.
C15_SkipAndOrdering ==
    [][/\ SkipCase
            => /\ pc' = "loop"
               /\ i' = i + 1
               /\ UNCHANGED <<redis, post_queue, posts, fetches, emitted,
                              last_call, enq_events>>
       /\ ProcessCase
            => /\ pc' = "fetch"
               /\ i' = i
               /\ last_processed' = StoredOrEpoch(redis[i])
               /\ fetches' = 0
               /\ UNCHANGED <<redis, post_queue, posts>>
       /\ pc \in {"fetch", "scan"}
            => /\ pc' \in {"fetch", "scan", "set", "aborted"}
               /\ i' = i
               /\ redis' = redis
       /\ pc = "set"
            => /\ pc' = "finish"
               /\ i' = i
               /\ redis' = [redis EXCEPT ![i] = RedisEncode(ret)]
               /\ UNCHANGED <<post_queue, posts, fetches>>
       /\ pc = "finish"
            => /\ redis' = redis
               /\ fetches' = fetches
               /\ \/ pc' = "aborted"
                  \/ /\ pc' = "loop"
                     /\ i' = i + 1
                     /\ last_call'.kind = "finished"
                     /\ last_call'.posted = (post_queue # <<>>)
       /\ redis' # redis => pc = "set"
       /\ fetches' > fetches => pc = "fetch"]_vars

\* C15 witness: the first repository was passed over and the second one
\* has had its engine run and its checkpoint write and awaits its flush.
C15_Witness ==
    /\ run = 1
    /\ pc = "finish"
    /\ i = 2
    /\ redis[1] = ckpt0[1]
    /\ repos[1].slug # ""
    /\ LexGE(StoredOrEpoch(ckpt0[1]), repos[1].last_updated)
    /\ emitted # <<>>

\* C16: the events of a POST body all carry the same repository.
C16_PerRepositoryBatches ==
    last_call.posted =>
        \A p, q \in 1..Len(last_call.body) :
            last_call.body[p].data = last_call.body[q].data

\* C17: when a run is aborted while the loop is at the i-th repository (or
\* before the loop, in the listing call), the checkpoints of that
\* repository and of the ones after it are those of before the run.
C17_AbortLeavesCheckpoints ==
    pc = "aborted" =>
        \A j \in 1..Len(redis) : j >= i => redis[j] = ckpt0[j]

(* --------------- a sync against an upstream that answers --------------- *)

\* A history none of whose commits is posted from the checkpoint: each one
\* is dropped by the author tests or is at or below the checkpoint.
NothingToPost(h, stored) ==
    \A n \in 1..Len(h) :
        \/ Filtered(h[n].raw_author)
        \/ ~Newer(h[n].utctimestamp, StoredOrEpoch(stored))

\* _process_repo: the upstream answers the request with the page at the
\* cursor, and the page is empty: break.  The request count stays at
\* MaxFetch once it is there, requests are followed without limit.
AnsweredFetchBreak ==
    /\ pc = "fetch"
    /\ Len(Page(i, last_commit)) = 0
    /\ fetches' = Min(fetches + 1, MaxFetch)
    /\ ret' = PyNone
    /\ exit' = "break"
    /\ pc' = "set"
    /\ UNCHANGED <<env_vars, parse_vars, redis, post_queue, run, i, last_processed,
                   last_processed_save, last_commit, commits, k, ckpt0,
                   scanned, emitted, posts, last_call, enq_events, acked,
                   api_vars>>

\* _process_repo: the upstream answers the request with the page at the
\* cursor, and the page has commits.
AnsweredFetchPage ==
    /\ pc = "fetch"
    /\ Len(Page(i, last_commit)) # 0
    /\ commits' = Page(i, last_commit)
    /\ last_commit' = Page(i, last_commit)[1].node
    /\ fetches' = Min(fetches + 1, MaxFetch)
    /\ k' = 1
    /\ pc' = "scan"
    /\ UNCHANGED <<env_vars, parse_vars, redis, post_queue, run, i, last_processed,
                   last_processed_save, ret, ckpt0, scanned, emitted, exit,
                   posts, last_call, enq_events, acked, api_vars>>

\* One listed repository whose history has nothing to post.
InitLive ==
    /\ \E slug \in Slugs, updated \in LaterStamps, h \in Histories,
          c \in {PyNone} \cup LaterStamps :
           /\ slug = "" => h = <<>> /\ c = PyNone
           /\ NothingToPost(h, c)
           /\ repos = <<[slug |-> slug, last_updated |-> updated]>>
           /\ hist = <<h>>
           /\ redis = <<c>>
    /\ ckpt0 = redis
    /\ pc = "start"
    /\ Fresh

NextLive ==
    \/ GetRepositories
    \/ ProcessDone
    \/ SkipNoSlug
    \/ SkipUnchanged
    \/ ProcessRepo
    \/ AnsweredFetchBreak
    \/ AnsweredFetchPage
    \/ ScanSkip
    \/ ScanStop
    \/ PageSingle
    \/ PageNext
    \/ RedisSet
    \/ PostFinished

\* The program is one sequential process: a step that can be taken is taken.
SpecLive == InitLive /\ [][NextLive]_vars /\ WF_vars(NextLive)

\* C18: a repository sync that has begun returns: from every state in which
\* the engine is about to request a page, a state is reached in which
\* _process_repo is over and its result is about to be stored.
C18_SyncTerminates == (pc = "fetch") ~> (pc = "set")

(* ---------------------------- completeness ---------------------------- *)

\* The commits of a history are in most-recent-first order.
NonIncreasing(h) ==
    \A n \in 1..(Len(h) - 1) : LexGE(h[n].utctimestamp, h[n + 1].utctimestamp)

\* Every commit of the repository that passes the author tests and is
\* above the starting checkpoint was posted in this sync.
AllQualifyingEmitted ==
    \A n \in 1..Len(hist[i]) :
        Qualifies(n) => \E p \in 1..Len(emitted) : emitted[p] = n

\* C19 as stated: with timestamps non-increasing in history order, a sync
\* that has returned has posted every domain-matching commit above the
\* starting checkpoint.
C19_CompleteOnReturn ==
    (Returned /\ NonIncreasing(hist[i])) => AllQualifyingEmitted

\* C19, amended: with timestamps non-increasing in history order, a sync
\* that has returned from the scan of a page (at a commit at or below the
\* checkpoint, or after a page of one commit) has posted every
\* domain-matching commit above the starting checkpoint.
C19_CompleteOnScanReturn ==
    (Returned /\ exit \in {"stop", "single"} /\ NonIncreasing(hist[i]))
        => AllQualifyingEmitted

\* C19 witness: a sync of a two-commit history in order that posted the
\* newer commit and returned at the older one.
C19_Witness ==
    /\ pc = "set"
    /\ exit = "stop"
    /\ Len(hist[i]) = 2
    /\ NonIncreasing(hist[i])
    /\ Qualifies(1)
    /\ emitted = <<1>>

====
